---- MODULE Spec2Model ----
(***************************************************************************)
(* LowkeyType.c: the typing session (typingTest), the endurance            *)
(* controller (enduranceMode), the fixed-length runner (rawSpeedMode) and  *)
(* the profile update (processTypingResults), as one state machine.        *)
(*                                                                         *)
(* Characters are their ASCII codes, strings are sequences of codes.       *)
(* A C float is modelled by the exact rational <<n, d>> in lowest terms,   *)
(* with <<1,0>> = +inf, <<-1,0>> = -inf and <<0,0>> = NaN (the results of  *)
(* the float divisions by zero the code can perform).                      *)
(***************************************************************************)
EXTENDS Integers, Sequences, FiniteSets, TLC

VARIABLES
    pc,                  \* where the program waits: "menu", "loop", "typing", "afterTest"
    mode,                \* which mode function is executing: "none", "endurance", "raw"
    runs,                \* number of mode entries chosen from the main menu so far
    user,                \* state->users[state->currentUserIndex]
    usersFile,           \* the record of the current user last written by saveUsersToFile
    wordCount, wordList, \* state->wordCount, state->wordList
    difficulty,          \* local of enduranceMode / rawSpeedMode
    roundsCompleted, currentAccuracy, currentWPM,
    totalWordsCompleted, testCanceled,     \* locals of enduranceMode
    text,                \* roundText / targetText handed to typingTest
    result,              \* the caller's TypingResult
    testStatus,          \* return value of typingTest: 0 cancelled, 1 finished, -1 not returned
    typedText, mistakeFlags, pos, ch,
    totalKeystrokes, incorrectKeystrokes, testFinished,  \* locals of typingTest
    numTestWords,        \* local of rawSpeedMode: the number of words of the text
    usedIndexes,         \* the indexes i with usedIndexes[i] = 1, in the for loop of either mode
    sampleI,             \* the i of that for loop
    scTarget, scTyped,   \* the strings target and typed calculateAccuracy is called with
    score,               \* what calculateAccuracy returned and stored through its pointers
    fp,                  \* the file loadWordsFromFile reads: its words not yet read
    lastStore            \* the index of wordList the last fscanf stored a word at, -1 for none

sessionVars == <<typedText, mistakeFlags, pos, ch, totalKeystrokes,
                 incorrectKeystrokes, testFinished>>
enduranceVars == <<roundsCompleted, currentAccuracy, currentWPM,
                   totalWordsCompleted, testCanceled>>
wordVars == <<wordCount, wordList>>
samplerVars == <<numTestWords, usedIndexes, sampleI>>
scorerVars == <<scTarget, scTyped, score>>
loaderVars == <<fp, lastStore>>
vars == <<pc, mode, runs, user, usersFile, wordCount, wordList, difficulty,
          roundsCompleted, currentAccuracy, currentWPM, totalWordsCompleted,
          testCanceled, text, result, testStatus, typedText, mistakeFlags,
          pos, ch, totalKeystrokes, incorrectKeystrokes, testFinished,
          numTestWords, usedIndexes, sampleI, scTarget, scTyped, score,
          fp, lastStore>>

(***************************************************************************)
(* Program constants                                                       *)
(***************************************************************************)
MAX_WORDS == 1000
ENDURANCE_ACCURACY_THRESHOLD == 85
DYNAMIC_COMPLEXITY_THRESHOLD == 95
ENDURANCE_WPM_THRESHOLD == 30
CLOCKS_PER_SEC == 1000
wordsPerRound == 10
TypedLimit == 999
ESC == 27
BS == 8
DEL == 127
NUL == 0
SPACE == 32
MaxWordChars == 19    \* fscanf(fp, "%19s", ...)
MaxTextWords == 50    \* getValidIntInput(15, 50)

(***************************************************************************)
(* Bounds of the model                                                     *)
(***************************************************************************)
MaxKeys == 2          \* printable keystrokes per session, whole-program specification
MaxKeysE == 20        \* printable keystrokes per session, endurance specification
MaxFileWords == 1     \* words in a word-list file, whole-program specification
MaxRounds == 3        \* endurance rounds finished per run
MaxRuns == 1          \* modes entered from the main menu
MaxPool == 10         \* words in a word-list file, text-generation specification
MaxScoreLen == 4      \* length of the strings calculateAccuracy is called with
MaxTotalChars == 100  \* totalCharsTyped of a profile, difficulty specification
MaxExtraWords == 2    \* words of a file beyond MAX_WORDS, loader specification

(***************************************************************************)
(* float arithmetic                                                        *)
(***************************************************************************)
Abs(x) == IF x < 0 THEN -x ELSE x
Min(a, b) == IF a < b THEN a ELSE b

RECURSIVE GCD(_, _)
GCD(a, b) == IF b = 0 THEN a ELSE GCD(b, a % b)

\* n / d as a float
FDiv(n, d) ==
    IF d = 0 THEN (IF n > 0 THEN <<1, 0>> ELSE IF n < 0 THEN <<-1, 0>> ELSE <<0, 0>>)
    ELSE LET s == IF d < 0 THEN -1 ELSE 1
             g == GCD(Abs(n), Abs(d))
         IN  <<(s * n) \div g, (s * d) \div g>>

FInt(n) == <<n, 1>>
IsNaN(a) == a = <<0, 0>>
\* a >= b and a > b on floats; every comparison with NaN is false
FGeq(a, b) ==
    /\ ~IsNaN(a) /\ ~IsNaN(b)
    /\ IF a[2] = 0 /\ b[2] = 0 THEN a[1] >= b[1] ELSE a[1] * b[2] >= b[1] * a[2]
FGt(a, b) ==
    /\ ~IsNaN(a) /\ ~IsNaN(b)
    /\ IF a[2] = 0 /\ b[2] = 0 THEN a[1] > b[1] ELSE a[1] * b[2] > b[1] * a[2]
FAdd(a, b) ==
    IF IsNaN(a) \/ IsNaN(b) THEN <<0, 0>>
    ELSE IF a[2] = 0 /\ b[2] = 0 THEN (IF a[1] = b[1] THEN a ELSE <<0, 0>>)
    ELSE IF a[2] = 0 THEN a
    ELSE IF b[2] = 0 THEN b
    ELSE FDiv(a[1] * b[2] + b[1] * a[2], a[2] * b[2])
\* a / k for an int k > 0
FDivInt(a, k) == IF a[2] = 0 THEN a ELSE FDiv(a[1], a[2] * k)
FNeg(a) == <<-a[1], a[2]>>
FSub(a, b) == FAdd(a, FNeg(b))
\* a * b; infinity times zero is NaN
FMul(a, b) ==
    IF IsNaN(a) \/ IsNaN(b) THEN <<0, 0>>
    ELSE IF a[2] = 0 \/ b[2] = 0
         THEN (IF a[1] * b[1] > 0 THEN <<1, 0>> ELSE IF a[1] * b[1] < 0 THEN <<-1, 0>>
               ELSE <<0, 0>>)
    ELSE FDiv(a[1] * b[1], a[2] * b[2])

(***************************************************************************)
(* character classes and strings                                           *)
(***************************************************************************)
isprint(c) == c >= 32 /\ c <= 126

RECURSIVE strcatAll(_)
strcatAll(parts) == IF parts = <<>> THEN <<>> ELSE Head(parts) \o strcatAll(Tail(parts))

(***************************************************************************)
(* Values the environment supplies                                         *)
(***************************************************************************)
\* the i-th word of a word-list file (i from 1): "a", "b", "a", ...
FileWord(i) == IF i % 2 = 1 THEN <<97>> ELSE <<98>>
\* the keys getch() can deliver: the letters of the words, the space, both
\* backspace codes, ESC and a control key no branch handles (9, the tab)
Keys == {97, 98, SPACE, BS, DEL, ESC, 9}
\* clock() ticks a session can take
TickChoices == {0, 500, 4000}

\* a TypingResult that was declared and never assigned holds whatever the stack held
GarbageResults ==
    { [totalChars |-> 0, correctChars |-> 0, mistyped |-> 0, missed |-> 0, extra |-> 0,
       accuracy |-> <<0, 1>>, wpm |-> <<0, 1>>, timeTaken |-> <<0, 1>>, text |-> <<>>],
      [totalChars |-> 3, correctChars |-> 5, mistyped |-> 7, missed |-> 8, extra |-> 9,
       accuracy |-> <<250, 1>>, wpm |-> <<999, 1>>, timeTaken |-> <<1, 2>>, text |-> <<120>>] }

\* the value of the variable result while no TypingResult object exists
NoResult ==
    [totalChars |-> 0, correctChars |-> 0, mistyped |-> 0, missed |-> 0, extra |-> 0,
     accuracy |-> <<0, 1>>, wpm |-> <<0, 1>>, timeTaken |-> <<0, 1>>, text |-> <<>>]

\* main(): a new user gets an all-zero record; a returning user the record of users.txt
NewUser ==
    [bestWPM |-> <<0, 1>>, bestAccuracy |-> <<0, 1>>, testsCompleted |-> 0,
     enduranceHighScore |-> 0, averageAccuracy |-> <<0, 1>>,
     totalCharsTyped |-> 0, totalCorrectChars |-> 0]
ReturningUser ==
    [bestWPM |-> <<40, 1>>, bestAccuracy |-> <<96, 1>>, testsCompleted |-> 2,
     enduranceHighScore |-> 20, averageAccuracy |-> <<90, 1>>,
     totalCharsTyped |-> 10, totalCorrectChars |-> 9]
InitUsers == {NewUser, ReturningUser}

\* the profiles of the difficulty specification: every pair of totals up to
\* MaxTotalChars characters, with best accuracies around the two thresholds
BestAccuracies == {<<0, 1>>, <<84, 1>>, <<85, 1>>, <<189, 2>>, <<95, 1>>, <<100, 1>>}
DifficultyUsers ==
    { [NewUser EXCEPT !.totalCharsTyped = t[1], !.totalCorrectChars = t[2],
                      !.bestAccuracy = b] :
        t \in {q \in (0..MaxTotalChars) \X (0..MaxTotalChars) : q[2] <= q[1]},
        b \in BestAccuracies }

\* the word-list file that cannot be opened
NoFile == [exists |-> FALSE, words |-> <<>>]

\* the value of the variable score while calculateAccuracy has not been called
NoScore == [accuracy |-> <<0, 1>>, mistyped |-> 0, missed |-> 0, extra |-> 0]

\* no mode function is executing: their locals hold no value yet
Idle ==
    /\ mode = "none" /\ runs = 0
    /\ wordCount = 0 /\ wordList = <<>>
    /\ difficulty = 0
    /\ roundsCompleted = 0 /\ currentAccuracy = <<0, 1>> /\ currentWPM = <<0, 1>>
    /\ totalWordsCompleted = 0 /\ testCanceled = 0
    /\ text = <<>>
    /\ result = NoResult
    /\ testStatus = -1
    /\ typedText = <<>> /\ mistakeFlags = <<>>
    /\ pos = 0 /\ ch = NUL
    /\ totalKeystrokes = 0 /\ incorrectKeystrokes = 0 /\ testFinished = 0
    /\ numTestWords = 0 /\ usedIndexes = {} /\ sampleI = 0

Init ==
    /\ pc = "menu"
    /\ user \in InitUsers
    /\ usersFile = user
    /\ Idle
    /\ scTarget = <<>> /\ scTyped = <<>> /\ score = NoScore
    /\ fp = NoFile /\ lastStore = -1

\* The locals of a function that has returned are not part of the program's
\* state any more: they are given the values they have in Init.
NoSession ==
    /\ text' = <<>> /\ result' = NoResult /\ testStatus' = -1
    /\ typedText' = <<>> /\ mistakeFlags' = <<>>
    /\ pos' = 0 /\ ch' = NUL
    /\ totalKeystrokes' = 0 /\ incorrectKeystrokes' = 0 /\ testFinished' = 0
NoEndurance ==
    /\ roundsCompleted' = 0 /\ currentAccuracy' = <<0, 1>> /\ currentWPM' = <<0, 1>>
    /\ totalWordsCompleted' = 0 /\ testCanceled' = 0

(***************************************************************************)
(* typingTest                                                              *)
(***************************************************************************)
\* the locals of typingTest at its entry, for the text txt
EnterTypingTest(txt) ==
    /\ text' = txt
    /\ typedText' = [i \in 0..Len(txt) |-> NUL]
    /\ mistakeFlags' = [i \in 0..Len(txt) |-> 0]
    /\ pos' = 0 /\ ch' = NUL
    /\ totalKeystrokes' = 0 /\ incorrectKeystrokes' = 0 /\ testFinished' = 0
    /\ testStatus' = -1
    /\ pc' = "typing"

\* Render with the test of mistakeFlags[i] left out: a differing position is
\* counted every time it is drawn
RECURSIVE Render_CountsEveryTime(_, _, _, _, _, _)
Render_CountsEveryTime(i, last, typed, txt, flags, inc) ==
    IF i > last THEN [flags |-> flags, inc |-> inc]
    ELSE IF i < Len(txt) /\ typed[i] = txt[i + 1]
         THEN Render_CountsEveryTime(i + 1, last, typed, txt, flags, inc)
         ELSE Render_CountsEveryTime(i + 1, last, typed, txt,
                                     [flags EXCEPT ![i] = 1], inc + 1)

\* Render with the assignment mistakeFlags[i] = 1 left out
RECURSIVE Render_NeverMarks(_, _, _, _, _, _)
Render_NeverMarks(i, last, typed, txt, flags, inc) ==
    IF i > last THEN [flags |-> flags, inc |-> inc]
    ELSE IF i < Len(txt) /\ typed[i] = txt[i + 1]
         THEN Render_NeverMarks(i + 1, last, typed, txt, flags, inc)
         ELSE Render_NeverMarks(i + 1, last, typed, txt, flags, inc + 1)

\* the colouring loop (for i = 0; i <= pos; i++) of both branches: it marks
\* and counts the positions that differ from the text. An iteration reads and
\* writes only the flag of its own position, so the loop is given by the set
\* of positions it marks (texts of 999 characters are too deep a recursion):
\* the unmarked positions i..last inside the text that differ, each counted
\* once, and the positions past the text, each counted
Render(i, last, typed, txt, flags, inc) ==
    LET marked == {j \in i..last : j < Len(txt) /\ typed[j] # txt[j + 1] /\ flags[j] = 0}
        past == {j \in i..last : j >= Len(txt)}
    IN  [flags |-> [j \in DOMAIN flags |-> IF j \in marked THEN 1 ELSE flags[j]],
         inc |-> inc + Cardinality(marked) + Cardinality(past)]

\* CancelKey storing the counts reached so far in the caller's result
CancelKey_StoresResult ==
    /\ testStatus' = 0
    /\ pc' = "afterTest"
    /\ result' = [result EXCEPT !.totalChars = totalKeystrokes,
                                !.correctChars = totalKeystrokes - incorrectKeystrokes]
    /\ UNCHANGED <<typedText, mistakeFlags, pos, totalKeystrokes, incorrectKeystrokes,
                   testFinished>>

\* if (ch == 27) return 0;
CancelKey ==
    /\ testStatus' = 0
    /\ pc' = "afterTest"
    /\ UNCHANGED <<typedText, mistakeFlags, pos, totalKeystrokes, incorrectKeystrokes,
                   testFinished, result>>

\* Backspace taking the removed character's mistake back out of the count
Backspace_Uncounts ==
    LET p == pos - 1
        typed == [typedText EXCEPT ![p] = NUL]
    IN  /\ pos' = p
        /\ typedText' = typed
        /\ incorrectKeystrokes' = IF typedText[p] # text[p + 1] /\ incorrectKeystrokes > 0
                                  THEN incorrectKeystrokes - 1 ELSE incorrectKeystrokes
        /\ UNCHANGED <<mistakeFlags, totalKeystrokes, testFinished, testStatus, pc, result>>

\* Backspace clearing the mark of the position it removes
Backspace_Unmarks ==
    LET p == pos - 1
        typed == [typedText EXCEPT ![p] = NUL]
    IN  /\ pos' = p
        /\ typedText' = typed
        /\ mistakeFlags' = [mistakeFlags EXCEPT ![p] = 0]
        /\ UNCHANGED <<incorrectKeystrokes, totalKeystrokes, testFinished, testStatus,
                       pc, result>>

\* Backspace without typedText[pos] = 0
Backspace_NoTruncate ==
    LET p == pos - 1
        r == Render(0, p, typedText, text, mistakeFlags, incorrectKeystrokes)
    IN  /\ pos' = p
        /\ mistakeFlags' = r.flags
        /\ incorrectKeystrokes' = r.inc
        /\ UNCHANGED <<typedText, totalKeystrokes, testFinished, testStatus, pc, result>>

\* if ((ch == 8 || ch == 127) && pos > 0)
Backspace ==
    LET p == pos - 1
        typed == [typedText EXCEPT ![p] = NUL]
        r == Render(0, p, typed, text, mistakeFlags, incorrectKeystrokes)
    IN  /\ pos' = p
        /\ typedText' = typed
        /\ mistakeFlags' = r.flags
        /\ incorrectKeystrokes' = r.inc
        /\ UNCHANGED <<totalKeystrokes, testFinished, testStatus, pc, result>>

\* Printable drawing one position too many, as the loop does after a backspace
Printable_RendersPastCursor(c) ==
    LET typed == [typedText EXCEPT ![pos] = c, ![pos + 1] = NUL]
        r == Render(0, pos + 1, typed, text, mistakeFlags, incorrectKeystrokes)
    IN  /\ typedText' = typed
        /\ totalKeystrokes' = totalKeystrokes + 1
        /\ mistakeFlags' = r.flags
        /\ incorrectKeystrokes' = r.inc
        /\ pos' = pos + 1
        /\ testFinished' = IF pos + 1 >= Len(text) THEN 1 ELSE 0
        /\ UNCHANGED <<testStatus, pc, result>>

\* Printable setting testFinished one character before the end of the text
Printable_FinishesEarly(c) ==
    LET typed == [typedText EXCEPT ![pos] = c, ![pos + 1] = NUL]
        r == Render(0, pos, typed, text, mistakeFlags, incorrectKeystrokes)
    IN  /\ typedText' = typed
        /\ totalKeystrokes' = totalKeystrokes + 1
        /\ mistakeFlags' = r.flags
        /\ incorrectKeystrokes' = r.inc
        /\ pos' = pos + 1
        /\ testFinished' = IF pos + 2 >= Len(text) THEN 1 ELSE 0
        /\ UNCHANGED <<testStatus, pc, result>>

\* Printable without totalKeystrokes++
Printable_NoKeystrokeCount(c) ==
    LET typed == [typedText EXCEPT ![pos] = c, ![pos + 1] = NUL]
        r == Render(0, pos, typed, text, mistakeFlags, incorrectKeystrokes)
    IN  /\ typedText' = typed
        /\ mistakeFlags' = r.flags
        /\ incorrectKeystrokes' = r.inc
        /\ pos' = pos + 1
        /\ testFinished' = IF pos + 1 >= Len(text) THEN 1 ELSE 0
        /\ UNCHANGED <<totalKeystrokes, testStatus, pc, result>>

\* else if (isprint(ch) && pos < 999)
Printable(c) ==
    LET typed == [typedText EXCEPT ![pos] = c, ![pos + 1] = NUL]
        r == Render(0, pos, typed, text, mistakeFlags, incorrectKeystrokes)
    IN  /\ typedText' = typed
        /\ totalKeystrokes' = totalKeystrokes + 1
        /\ mistakeFlags' = r.flags
        /\ incorrectKeystrokes' = r.inc
        /\ pos' = pos + 1
        /\ testFinished' = IF pos + 1 >= Len(text) THEN 1 ELSE 0
        /\ UNCHANGED <<testStatus, pc, result>>

\* IgnoredKey counting the key as a keystroke
IgnoredKey_CountsKeystroke ==
    /\ totalKeystrokes' = totalKeystrokes + 1
    /\ UNCHANGED <<typedText, mistakeFlags, pos, incorrectKeystrokes,
                   testFinished, testStatus, pc, result>>

\* any other key: no branch is taken
IgnoredKey ==
    UNCHANGED <<typedText, mistakeFlags, pos, totalKeystrokes, incorrectKeystrokes,
                testFinished, testStatus, pc, result>>

\* one iteration of while (!testFinished && pos < textLength): ch = getch() and its branch
KeyEvent(c, cap) ==
    /\ pc = "typing"
    /\ testFinished = 0 /\ pos < Len(text)
    /\ isprint(c) => totalKeystrokes < cap
    /\ ch' = c
    /\ IF c = ESC THEN CancelKey
       ELSE IF (c = BS \/ c = DEL) /\ pos > 0 THEN Backspace
       ELSE IF isprint(c) /\ pos < TypedLimit THEN Printable(c)
       ELSE IgnoredKey
    /\ UNCHANGED <<mode, runs, user, usersFile, wordVars, difficulty, enduranceVars, text>>
    /\ UNCHANGED <<samplerVars, scorerVars, loaderVars>>

\* the result typingTest stores after its loop, ticks clock ticks after its start
FinishedResult(ticks) ==
    LET correct == totalKeystrokes - incorrectKeystrokes
    IN  [result EXCEPT
            !.totalChars = totalKeystrokes,
            !.correctChars = correct,
            !.accuracy = IF totalKeystrokes = 0 THEN <<0, 1>>
                         ELSE FDiv(100 * correct, totalKeystrokes),
            !.wpm = FDiv(pos * 60 * CLOCKS_PER_SEC, 5 * ticks),
            !.timeTaken = FDiv(ticks, CLOCKS_PER_SEC),
            !.text = text]

\* the loop condition is false: store the result and return 1
TypingFinish ==
    /\ pc = "typing"
    /\ ~(testFinished = 0 /\ pos < Len(text))
    /\ \E ticks \in TickChoices : result' = FinishedResult(ticks)
    /\ testStatus' = 1
    /\ pc' = "afterTest"
    /\ UNCHANGED <<mode, runs, user, usersFile, wordVars, difficulty, enduranceVars, text,
                   sessionVars>>
    /\ UNCHANGED <<samplerVars, scorerVars, loaderVars>>

(***************************************************************************)
(* word list, difficulty, text generation                                  *)
(***************************************************************************)
\* a word-list file: one that cannot be opened, or its sequence of words
Files(maxWords) ==
    {NoFile} \cup {[exists |-> TRUE, words |-> [i \in 1..n |-> FileWord(i)]] : n \in 0..maxWords}
\* the files of the endurance specification: none, or the one word "a"
OneWordFiles == {NoFile, [exists |-> TRUE, words |-> <<FileWord(1)>>]}

\* the files of the text-generation specification: none, or the word "a" on
\* each of up to maxWords lines, so that a text is determined by its number of
\* words and the indexes drawn for it are what varies
SameWordFiles(maxWords) ==
    {NoFile} \cup {[exists |-> TRUE, words |-> [i \in 1..n |-> FileWord(1)]] : n \in 0..maxWords}

\* loadWordsFromFile reporting success, with an empty list, for a file that
\* cannot be opened
loadWordsFromFile_ReportsSuccess(file) ==
    LET n == Min(Len(file.words), MAX_WORDS)
    IN  [ok |-> 1, wordCount |-> n, wordList |-> SubSeq(file.words, 1, n)]

\* loadWordsFromFile: 0 and the list untouched if the file cannot be opened,
\* else the words of the file, MAX_WORDS of them at most
loadWordsFromFile(file) ==
    IF ~file.exists
    THEN [ok |-> 0, wordCount |-> wordCount, wordList |-> wordList]
    ELSE LET n == Min(Len(file.words), MAX_WORDS)
         IN  [ok |-> 1, wordCount |-> n, wordList |-> SubSeq(file.words, 1, n)]

(***************************************************************************)
(* loadWordsFromFile, one evaluation of its while condition a step         *)
(***************************************************************************)
\* the files of the loader specification: none, and files of 0, 1 and
\* MAX_WORDS up to MAX_WORDS + MaxExtraWords words
LoaderFiles ==
    {NoFile} \cup
    {[exists |-> TRUE, words |-> [i \in 1..n |-> FileWord(i)]] :
        n \in {0, 1} \cup (MAX_WORDS..(MAX_WORDS + MaxExtraWords))}

\* wordList after fscanf stored the word at wordList[index], index < MAX_WORDS
StoreWord(list, index, word) ==
    IF index < Len(list) THEN [list EXCEPT ![index + 1] = word] ELSE Append(list, word)

\* AppState declares wordCount right after wordList[MAX_WORDS][MAX_WORD_LEN]:
\* the int wordCount after the bytes of the word and its terminator have been
\* written over its first bytes (little-endian), the other bytes kept
ClobberedCount(word, old) ==
    LET byte(k) == IF k < Len(word) THEN word[k + 1]
                   ELSE IF k = Len(word) THEN NUL
                   ELSE (old \div (256 ^ k)) % 256
    IN  byte(0) + 256 * byte(1) + 256 * 256 * byte(2) + 256 * 256 * 256 * byte(3)

\* FILE *fp = fopen(filename, "r"); if (!fp) return 0; state->wordCount = 0;
LoaderOpen ==
    /\ pc = "fopen"
    /\ IF ~fp.exists
       THEN pc' = "loadFailed" /\ UNCHANGED wordCount
       ELSE pc' = "fscanf" /\ wordCount' = 0
    /\ UNCHANGED <<mode, runs, user, usersFile, wordList, difficulty, enduranceVars, text,
                   result, testStatus, sessionVars, samplerVars, scorerVars, loaderVars>>

\* while (fscanf(fp, "%19s", state->wordList[state->wordCount]) == 1 &&
\*        state->wordCount < MAX_WORDS) state->wordCount++;
\* fscanf stores the next word before wordCount is tested. A store at index
\* MAX_WORDS is outside the array: it may miss wordCount or overwrite it.
LoaderRead ==
    /\ pc = "fscanf"
    /\ IF fp.words = <<>>
       THEN /\ pc' = "loaded"
            /\ UNCHANGED <<wordCount, wordList, loaderVars>>
       ELSE /\ fp' = [fp EXCEPT !.words = Tail(fp.words)]
            /\ lastStore' = wordCount
            /\ IF wordCount < MAX_WORDS
               THEN /\ wordList' = StoreWord(wordList, wordCount, Head(fp.words))
                    /\ wordCount' = wordCount + 1
                    /\ pc' = "fscanf"
               ELSE /\ wordList' = wordList
                    /\ \E count \in {wordCount, ClobberedCount(Head(fp.words), wordCount)} :
                         IF count < MAX_WORDS
                         THEN wordCount' = count + 1 /\ pc' = "fscanf"
                         ELSE wordCount' = count /\ pc' = "loaded"
    /\ UNCHANGED <<mode, runs, user, usersFile, difficulty, enduranceVars, text,
                   result, testStatus, sessionVars, samplerVars, scorerVars>>

\* a call of loadWordsFromFile on a file of LoaderFiles
InitLoader ==
    /\ pc = "fopen"
    /\ user = NewUser /\ usersFile = user
    /\ Idle
    /\ scTarget = <<>> /\ scTyped = <<>> /\ score = NoScore
    /\ fp \in LoaderFiles /\ lastStore = -1

\* getDifficulty with > for >= at both thresholds
getDifficulty_StrictThresholds(u) ==
    LET accuracy == IF u.totalCharsTyped > 0
                    THEN FDiv(100 * u.totalCorrectChars, u.totalCharsTyped)
                    ELSE u.bestAccuracy
    IN  IF FGt(accuracy, FInt(DYNAMIC_COMPLEXITY_THRESHOLD)) THEN 3
        ELSE IF FGt(accuracy, FInt(DYNAMIC_COMPLEXITY_THRESHOLD - 10)) THEN 2
        ELSE 1

getDifficulty(u) ==
    LET accuracy == IF u.totalCharsTyped > 0
                    THEN FDiv(100 * u.totalCorrectChars, u.totalCharsTyped)
                    ELSE u.bestAccuracy
    IN  IF FGeq(accuracy, FInt(DYNAMIC_COMPLEXITY_THRESHOLD)) THEN 3
        ELSE IF FGeq(accuracy, FInt(DYNAMIC_COMPLEXITY_THRESHOLD - 10)) THEN 2
        ELSE 1

\* the sequences of rand() % wordCount values that leave the do-while loops of
\* a text of count words over a list of wc words: a used index is drawn again
\* only while count < wc
Picks(count, wc) ==
    { p \in [1..Min(count, wc) -> 0..(wc - 1)] :
        count < wc => \A i, j \in 1..Min(count, wc) : i # j => p[i] # p[j] }

\* the text the for loop builds from the drawn indexes: every word, followed
\* by a space unless it is word number count - 1
GenText(picks, count, words) ==
    strcatAll([i \in 1..Len(picks) |->
                 words[picks[i] + 1] \o (IF i - 1 < count - 1 THEN <<SPACE>> ELSE <<>>)])

(***************************************************************************)
(* calculateAccuracy                                                       *)
(***************************************************************************)
RECURSIVE CountMistyped(_, _, _)
\* the for loop over i < minLen: the positions where typed[i] != target[i]
CountMistyped(targetStr, typedStr, minLen) ==
    IF minLen = 0 THEN 0
    ELSE CountMistyped(targetStr, typedStr, minLen - 1)
         + (IF typedStr[minLen] = targetStr[minLen] THEN 0 ELSE 1)

\* calculateAccuracy without  if (accuracy < 0) accuracy = 0.0
calculateAccuracy_NoFloor(targetStr, typedStr) ==
    LET targetLen == Len(targetStr)
        typedLen == Len(typedStr)
        mistypedChars == CountMistyped(targetStr, typedStr, Min(targetLen, typedLen))
        missedChars == IF typedLen < targetLen THEN targetLen - typedLen ELSE 0
        extraChars == IF typedLen > targetLen THEN typedLen - targetLen ELSE 0
        totalErrors == mistypedChars + missedChars + extraChars
        computed == FMul(FInt(100), FSub(FInt(1), FDiv(totalErrors, targetLen)))
    IN  [accuracy |-> IF targetLen = 0 THEN <<0, 1>> ELSE computed,
         mistyped |-> mistypedChars, missed |-> missedChars, extra |-> extraChars]

\* calculateAccuracy with the extra characters left out of totalErrors
calculateAccuracy_ExtraNotCounted(targetStr, typedStr) ==
    LET targetLen == Len(targetStr)
        typedLen == Len(typedStr)
        mistypedChars == CountMistyped(targetStr, typedStr, Min(targetLen, typedLen))
        missedChars == IF typedLen < targetLen THEN targetLen - typedLen ELSE 0
        extraChars == IF typedLen > targetLen THEN typedLen - targetLen ELSE 0
        totalErrors == mistypedChars + missedChars
        computed == FMul(FInt(100), FSub(FInt(1), FDiv(totalErrors, targetLen)))
        guarded == IF targetLen = 0 THEN <<0, 1>> ELSE computed
    IN  [accuracy |-> IF FGt(<<0, 1>>, guarded) THEN <<0, 1>> ELSE guarded,
         mistyped |-> mistypedChars, missed |-> missedChars, extra |-> extraChars]

\* the float calculateAccuracy returns and the three counts it stores
calculateAccuracy(targetStr, typedStr) ==
    LET targetLen == Len(targetStr)
        typedLen == Len(typedStr)
        mistypedChars == CountMistyped(targetStr, typedStr, Min(targetLen, typedLen))
        missedChars == IF typedLen < targetLen THEN targetLen - typedLen ELSE 0
        extraChars == IF typedLen > targetLen THEN typedLen - targetLen ELSE 0
        totalErrors == mistypedChars + missedChars + extraChars
        computed == FMul(FInt(100), FSub(FInt(1), FDiv(totalErrors, targetLen)))
        guarded == IF targetLen = 0 THEN <<0, 1>> ELSE computed
    IN  [accuracy |-> IF FGt(<<0, 1>>, guarded) THEN <<0, 1>> ELSE guarded,
         mistyped |-> mistypedChars, missed |-> missedChars, extra |-> extraChars]

\* the strings of up to maxLen letters
Strings(maxLen) == UNION {[1..n -> {97, 98}] : n \in 0..maxLen}

\* a call of calculateAccuracy on two strings
InitScorer ==
    /\ pc = "calculateAccuracy"
    /\ user = NewUser /\ usersFile = user
    /\ Idle
    /\ scTarget \in Strings(MaxScoreLen) /\ scTyped \in Strings(MaxScoreLen)
    /\ score = NoScore
    /\ fp = NoFile /\ lastStore = -1

CalculateAccuracyCall ==
    /\ pc = "calculateAccuracy"
    /\ score' = calculateAccuracy(scTarget, scTyped)
    /\ pc' = "scored"
    /\ UNCHANGED <<mode, runs, user, usersFile, wordVars, difficulty, enduranceVars, text,
                   result, testStatus, sessionVars, samplerVars, scTarget, scTyped,
                   loaderVars>>

(***************************************************************************)
(* enduranceMode                                                           *)
(***************************************************************************)
\* RoundCondition with || between the two thresholds
RoundCondition_EitherThreshold ==
    /\ \/ FGeq(currentAccuracy, FInt(ENDURANCE_ACCURACY_THRESHOLD))
       \/ FGeq(currentWPM, FInt(ENDURANCE_WPM_THRESHOLD))
    /\ testCanceled = 0

\* the while condition of enduranceMode
RoundCondition ==
    /\ FGeq(currentAccuracy, FInt(ENDURANCE_ACCURACY_THRESHOLD))
    /\ FGeq(currentWPM, FInt(ENDURANCE_WPM_THRESHOLD))
    /\ testCanceled = 0

\* menu choice 1: difficulty, word list, the settings of the run
EnduranceEnter(files) ==
    /\ pc = "menu" /\ runs < MaxRuns
    /\ runs' = runs + 1
    /\ \E file \in files :
         LET l == loadWordsFromFile(file)
         IN  /\ wordCount' = l.wordCount
             /\ wordList' = l.wordList
             /\ IF l.ok = 0
                THEN /\ difficulty' = 0
                     /\ UNCHANGED <<pc, mode, enduranceVars>>
                ELSE /\ difficulty' = getDifficulty(user)
                     /\ pc' = "loop" /\ mode' = "endurance"
                     /\ roundsCompleted' = 0
                     /\ currentAccuracy' = <<100, 1>>
                     /\ currentWPM' = <<100, 1>>
                     /\ totalWordsCompleted' = 0
                     /\ testCanceled' = 0
    /\ UNCHANGED <<user, usersFile, text, result, testStatus, sessionVars>>
    /\ UNCHANGED <<samplerVars, scorerVars, loaderVars>>

\* a round: the text is generated and typingTest is entered with a fresh result
StartRound ==
    /\ pc = "loop" /\ mode = "endurance"
    /\ RoundCondition
    /\ roundsCompleted < MaxRounds
    /\ \E picks \in Picks(wordsPerRound, wordCount) :
         EnterTypingTest(GenText(picks, wordsPerRound, wordList))
    /\ result' \in GarbageResults
    /\ UNCHANGED <<mode, runs, user, usersFile, wordVars, difficulty, enduranceVars>>
    /\ UNCHANGED <<samplerVars, scorerVars, loaderVars>>

\* EnduranceAfterTest updating the figures of the run whatever typingTest
\* returned, as rawSpeedMode does
EnduranceAfterTest_IgnoresStatus ==
    /\ pc = "afterTest" /\ mode = "endurance"
    /\ testCanceled' = IF testStatus = 0 THEN 1 ELSE testCanceled
    /\ currentAccuracy' = result.accuracy
    /\ currentWPM' = result.wpm
    /\ totalWordsCompleted' = totalWordsCompleted + wordsPerRound
    /\ roundsCompleted' = roundsCompleted + 1
    /\ pc' = "loop"
    /\ NoSession
    /\ UNCHANGED <<mode, runs, user, usersFile, wordVars, difficulty>>
    /\ UNCHANGED <<samplerVars, scorerVars, loaderVars>>

\* after typingTest returned: if (testStatus == 0) ... else ...
EnduranceAfterTest ==
    /\ pc = "afterTest" /\ mode = "endurance"
    /\ IF testStatus = 0
       THEN /\ testCanceled' = 1
            /\ UNCHANGED <<currentAccuracy, currentWPM, totalWordsCompleted, roundsCompleted>>
       ELSE /\ currentAccuracy' = result.accuracy
            /\ currentWPM' = result.wpm
            /\ totalWordsCompleted' = totalWordsCompleted + wordsPerRound
            /\ roundsCompleted' = roundsCompleted + 1
            /\ UNCHANGED testCanceled
    /\ pc' = "loop"
    /\ NoSession
    /\ UNCHANGED <<mode, runs, user, usersFile, wordVars, difficulty>>
    /\ UNCHANGED <<samplerVars, scorerVars, loaderVars>>

\* EnduranceUser adding the words of the run, not its rounds, to testsCompleted
EnduranceUser_CountsWords(u) ==
    [u EXCEPT
        !.enduranceHighScore = IF totalWordsCompleted > u.enduranceHighScore
                               THEN totalWordsCompleted ELSE u.enduranceHighScore,
        !.testsCompleted = u.testsCompleted + totalWordsCompleted]

\* the profile after the loop of enduranceMode
EnduranceUser(u) ==
    [u EXCEPT
        !.enduranceHighScore = IF totalWordsCompleted > u.enduranceHighScore
                               THEN totalWordsCompleted ELSE u.enduranceHighScore,
        !.testsCompleted = u.testsCompleted + roundsCompleted]

\* the loop condition is false: update the profile, save, return to the menu
EnduranceExit ==
    /\ pc = "loop" /\ mode = "endurance"
    /\ ~RoundCondition
    /\ user' = EnduranceUser(user)
    /\ usersFile' = user'
    /\ pc' = "menu" /\ mode' = "none" /\ difficulty' = 0
    /\ NoEndurance
    /\ UNCHANGED <<runs, wordVars, text, result, testStatus, sessionVars>>
    /\ UNCHANGED <<samplerVars, scorerVars, loaderVars>>

(***************************************************************************)
(* rawSpeedMode, processTypingResults                                      *)
(***************************************************************************)
RECURSIVE SumField(_, _, _)
\* the sum of an int field over results[1..count]
SumField(results, count, f) ==
    IF count = 0 THEN 0 ELSE SumField(results, count - 1, f) + results[count][f]

RECURSIVE SumFloat(_, _, _)
\* the sum of a float field over results[1..count]
SumFloat(results, count, f) ==
    IF count = 0 THEN <<0, 1>>
    ELSE FAdd(SumFloat(results, count - 1, f), results[count][f])

\* processTypingResults storing the accuracy of these results as averageAccuracy
processTypingResults_AveragesTheseResults(results, count, u) ==
    LET avgWPM == FDivInt(SumFloat(results, count, "wpm"), count)
        avgAccuracy == FDivInt(SumFloat(results, count, "accuracy"), count)
    IN  [u EXCEPT
            !.bestWPM = IF FGt(avgWPM, u.bestWPM) THEN avgWPM ELSE u.bestWPM,
            !.bestAccuracy = IF FGt(avgAccuracy, u.bestAccuracy)
                             THEN avgAccuracy ELSE u.bestAccuracy,
            !.totalCharsTyped = u.totalCharsTyped + SumField(results, count, "totalChars"),
            !.totalCorrectChars = u.totalCorrectChars + SumField(results, count, "correctChars"),
            !.averageAccuracy = avgAccuracy,
            !.testsCompleted = u.testsCompleted + count]

\* the profile processTypingResults leaves
processTypingResults(results, count, u) ==
    LET avgWPM == FDivInt(SumFloat(results, count, "wpm"), count)
        avgAccuracy == FDivInt(SumFloat(results, count, "accuracy"), count)
        chars == u.totalCharsTyped + SumField(results, count, "totalChars")
        correct == u.totalCorrectChars + SumField(results, count, "correctChars")
    IN  [u EXCEPT
            !.bestWPM = IF FGt(avgWPM, u.bestWPM) THEN avgWPM ELSE u.bestWPM,
            !.bestAccuracy = IF FGt(avgAccuracy, u.bestAccuracy)
                             THEN avgAccuracy ELSE u.bestAccuracy,
            !.totalCharsTyped = chars,
            !.totalCorrectChars = correct,
            !.averageAccuracy = FDiv(100 * correct, chars),
            !.testsCompleted = u.testsCompleted + count]

\* menu choice 2: difficulty and word count are asked, the word list is
\* loaded, the text generated and typingTest entered
RawEnter(files) ==
    /\ pc = "menu" /\ runs < MaxRuns
    /\ runs' = runs + 1
    /\ \E d \in 1..3, file \in files, asked \in {15, 50} :
         LET l == loadWordsFromFile(file)
             clamped == IF asked > l.wordCount THEN l.wordCount ELSE asked
         IN  /\ wordCount' = l.wordCount
             /\ wordList' = l.wordList
             /\ IF l.ok = 0
                THEN /\ difficulty' = 0
                     /\ UNCHANGED <<pc, mode, text, result, testStatus, sessionVars>>
                ELSE /\ difficulty' = d
                     /\ mode' = "raw"
                     /\ result' \in GarbageResults
                     /\ \E picks \in Picks(clamped, l.wordCount) :
                          EnterTypingTest(GenText(picks, clamped, l.wordList))
    /\ UNCHANGED <<user, usersFile, enduranceVars>>
    /\ UNCHANGED <<samplerVars, scorerVars, loaderVars>>

\* after typingTest returned (its status is not looked at): processTypingResults
RawAfterTest ==
    /\ pc = "afterTest" /\ mode = "raw"
    /\ user' = processTypingResults(<<result>>, 1, user)
    /\ usersFile' = user'
    /\ pc' = "menu" /\ mode' = "none" /\ difficulty' = 0
    /\ NoSession
    /\ UNCHANGED <<runs, wordVars, enduranceVars>>
    /\ UNCHANGED <<samplerVars, scorerVars, loaderVars>>

(***************************************************************************)
(* The for loop that generates the text, one iteration a step              *)
(***************************************************************************)
\* the bound of the for loop: wordsPerRound in enduranceMode, numTestWords in rawSpeedMode
LoopCount == IF mode = "endurance" THEN wordsPerRound ELSE numTestWords

\* enduranceMode, from the while condition to the for loop: roundText = "",
\* usedIndexes = {0}, i = 0
BeginRoundText ==
    /\ pc = "loop" /\ mode = "endurance"
    /\ RoundCondition
    /\ roundsCompleted < MaxRounds
    /\ text' = <<>> /\ usedIndexes' = {} /\ sampleI' = 0
    /\ pc' = "sampling"
    /\ UNCHANGED <<mode, runs, user, usersFile, wordVars, difficulty, enduranceVars,
                   result, testStatus, sessionVars, numTestWords, scorerVars, loaderVars>>

\* rawSpeedMode, from the menu to the for loop: difficulty and word count are
\* asked, the word list is loaded, numTestWords is clamped to wordCount
BeginTargetText(files) ==
    /\ pc = "menu" /\ runs < MaxRuns
    /\ runs' = runs + 1
    /\ \E d \in 1..3, file \in files, asked \in {15, 50} :
         LET l == loadWordsFromFile(file)
         IN  /\ wordCount' = l.wordCount
             /\ wordList' = l.wordList
             /\ IF l.ok = 0
                THEN /\ difficulty' = 0
                     /\ UNCHANGED <<pc, mode, samplerVars>>
                ELSE /\ difficulty' = d
                     /\ mode' = "raw"
                     /\ numTestWords' = IF asked > l.wordCount THEN l.wordCount ELSE asked
                     /\ usedIndexes' = {} /\ sampleI' = 0
                     /\ pc' = "sampling"
    /\ UNCHANGED <<user, usersFile, enduranceVars, text, result, testStatus, sessionVars,
                   scorerVars, loaderVars>>

\* SampleWordFrom appending the space after every word, the last one included
SampleWordFrom_SpaceAfterEveryWord(indexes) ==
    /\ pc = "sampling"
    /\ sampleI < LoopCount /\ sampleI < wordCount
    /\ \E randomIndex \in indexes :
         /\ ~(randomIndex \in usedIndexes /\ LoopCount < wordCount)
         /\ usedIndexes' = usedIndexes \cup {randomIndex}
         /\ text' = text \o wordList[randomIndex + 1] \o <<SPACE>>
    /\ sampleI' = sampleI + 1
    /\ UNCHANGED <<pc, mode, runs, user, usersFile, wordVars, difficulty, enduranceVars,
                   result, testStatus, sessionVars, numTestWords, scorerVars, loaderVars>>

\* one iteration of the for loop, rand() % wordCount drawing from indexes: the
\* do-while is left with the first draw that is unused, or with any draw
\* unless count < wordCount
SampleWordFrom(indexes) ==
    /\ pc = "sampling"
    /\ sampleI < LoopCount /\ sampleI < wordCount
    /\ \E randomIndex \in indexes :
         /\ ~(randomIndex \in usedIndexes /\ LoopCount < wordCount)
         /\ usedIndexes' = usedIndexes \cup {randomIndex}
         /\ text' = text \o wordList[randomIndex + 1]
                         \o (IF sampleI < LoopCount - 1 THEN <<SPACE>> ELSE <<>>)
    /\ sampleI' = sampleI + 1
    /\ UNCHANGED <<pc, mode, runs, user, usersFile, wordVars, difficulty, enduranceVars,
                   result, testStatus, sessionVars, numTestWords, scorerVars, loaderVars>>

\* the iteration with every index of the list a possible draw
SampleWord == SampleWordFrom(0..(wordCount - 1))

\* the for loop is left: typingTest is entered on the text, with a fresh result
SampleDone ==
    /\ pc = "sampling"
    /\ ~(sampleI < LoopCount /\ sampleI < wordCount)
    /\ EnterTypingTest(text)
    /\ result' \in GarbageResults
    /\ numTestWords' = 0 /\ usedIndexes' = {} /\ sampleI' = 0
    /\ UNCHANGED <<mode, runs, user, usersFile, wordVars, difficulty, enduranceVars,
                   scorerVars, loaderVars>>

(***************************************************************************)
(* Specifications                                                          *)
(***************************************************************************)
\* the whole program: both modes, short sessions
Next ==
    \/ EnduranceEnter(Files(MaxFileWords))
    \/ StartRound
    \/ EnduranceAfterTest
    \/ EnduranceExit
    \/ RawEnter(Files(MaxFileWords))
    \/ RawAfterTest
    \/ \E c \in Keys : KeyEvent(c, MaxKeys)
    \/ TypingFinish

Spec == Init /\ [][Next]_vars

\* endurance mode alone, with sessions long enough for accuracies such as 95 and 90
NextEndurance ==
    \/ EnduranceEnter(OneWordFiles)
    \/ StartRound
    \/ EnduranceAfterTest
    \/ EnduranceExit
    \/ \E c \in Keys : KeyEvent(c, MaxKeysE)
    \/ TypingFinish

SpecEndurance == Init /\ [][NextEndurance]_vars

\* text generation alone, for word lists of up to MaxPool words: both modes up
\* to the entry of typingTest, the for loop taken one iteration a step
NextSample ==
    \/ EnduranceEnter(SameWordFiles(MaxPool))
    \/ BeginRoundText
    \/ BeginTargetText(SameWordFiles(MaxPool))
    \/ SampleWord
    \/ SampleDone

SpecSample == Init /\ [][NextSample]_vars

\* the start of enduranceMode, where getDifficulty is called, on every profile
\* of DifficultyUsers
InitDifficulty ==
    /\ pc = "menu"
    /\ user \in DifficultyUsers
    /\ usersFile = user
    /\ Idle
    /\ scTarget = <<>> /\ scTyped = <<>> /\ score = NoScore
    /\ fp = NoFile /\ lastStore = -1

SpecDifficulty == InitDifficulty /\ [][EnduranceEnter(OneWordFiles)]_vars

\* the longest texts: a list of MaxTextWords words of MaxWordChars letters, both
\* modes from the menu to the end of the session, rand() drawing index i in
\* iteration i, every key the letter of the words
CapacityFiles ==
    {NoFile, [exists |-> TRUE,
              words |-> [i \in 1..MaxTextWords |-> [j \in 1..MaxWordChars |-> 97]]]}
NextCapacity ==
    \/ EnduranceEnter(CapacityFiles)
    \/ BeginRoundText
    \/ BeginTargetText(CapacityFiles)
    \/ SampleWordFrom({sampleI})
    \/ SampleDone
    \/ KeyEvent(97, TypedLimit + 1)
    \/ TypingFinish

SpecCapacity == Init /\ [][NextCapacity]_vars

\* loadWordsFromFile alone, on files around MAX_WORDS words
SpecLoader == InitLoader /\ [][LoaderOpen \/ LoaderRead]_vars

\* calculateAccuracy alone, on every pair of strings of up to MaxScoreLen letters
SpecScorer == InitScorer /\ [][CalculateAccuracyCall]_vars

(***************************************************************************)
(* Properties                                                              *)
(***************************************************************************)
\* the string in typedText: the characters before the first NUL
TypedLength ==
    LET nuls == {i \in DOMAIN typedText : typedText[i] = NUL}
    IN  IF nuls = {} THEN Cardinality(DOMAIN typedText)
        ELSE CHOOSE i \in nuls : \A j \in nuls : i <= j
TypedString == [i \in 1..pos |-> typedText[i - 1]]
\* the positions marked in mistakeFlags
MistakeMask == {i \in DOMAIN mistakeFlags : mistakeFlags[i] = 1}
\* a step of the key loop that typed a printable character
TypedStep == pc = "typing" /\ totalKeystrokes' = totalKeystrokes + 1

\* C1 (as claimed): when the session of a fixed-length run ended Cancelled,
\* the step that follows the return of typingTest leaves every field of the
\* current user's profile as it was before the run.
C1_CancelledRawKeepsProfile ==
    [][(mode = "raw" /\ pc = "afterTest" /\ testStatus = 0) => user' = user]_vars

\* C2: the event that reads the cancel key in the key loop returns Cancelled
\* at once and changes neither the cursor, the typed buffer, the two
\* counters, the mistake mask nor the caller's TypingResult.
C2_CancelIsImmediate ==
    [][(pc = "typing" /\ ch' = ESC) =>
          /\ pc' = "afterTest" /\ testStatus' = 0
          /\ UNCHANGED <<pos, typedText, totalKeystrokes, incorrectKeystrokes,
                         mistakeFlags, result>>]_vars
\* a session cancelled after keys were typed and a mistake was counted
C2_Witness ==
    /\ pc = "afterTest" /\ ch = ESC /\ testStatus = 0
    /\ pos > 0 /\ incorrectKeystrokes > 0

\* C3: a session over a non-empty text in which exactly the characters of the
\* text were typed (as many keystrokes as the text is long, the buffer equal
\* to the text) is Finished with totalChars = correctChars = len(text) and
\* accuracy 100.
C3_ExactFeed ==
    (/\ pc = "afterTest" /\ testStatus = 1
     /\ Len(text) > 0
     /\ totalKeystrokes = Len(text)
     /\ TypedString = text)
    => /\ result.totalChars = Len(text)
       /\ result.correctChars = Len(text)
       /\ result.accuracy = <<100, 1>>
\* the two-character text of an endurance round was fed exactly
C3_Witness ==
    /\ pc = "afterTest" /\ testStatus = 1
    /\ Len(text) = 2
    /\ totalKeystrokes = Len(text)
    /\ TypedString = text

\* C4 (as claimed): every printable character typed that differs from the
\* character of the text at the cursor adds exactly 1 to incorrectKeystrokes,
\* also when the position is already marked in mistakeFlags.
C4_EveryWrongKeyCounts ==
    [][(TypedStep /\ ch' # text[pos + 1]) =>
          incorrectKeystrokes' = incorrectKeystrokes + 1]_vars
\* C4 (amended): a wrong printable character adds exactly 1 to
\* incorrectKeystrokes when its position is not yet marked in mistakeFlags and
\* adds nothing when the position is already marked; the position is marked
\* afterwards in both cases.
C4_WrongKeyCountsOncePerPosition ==
    [][(TypedStep /\ ch' # text[pos + 1]) =>
          /\ incorrectKeystrokes' =
                incorrectKeystrokes + (IF mistakeFlags[pos] = 0 THEN 1 ELSE 0)
          /\ mistakeFlags'[pos] = 1]_vars
\* a wrong character was typed at position 0, removed, and a wrong character
\* typed there again: two keystrokes, one counted mistake
C4_Witness ==
    /\ pc = "typing" /\ isprint(ch)
    /\ totalKeystrokes = 2 /\ pos = 1
    /\ typedText[0] # text[1]
    /\ incorrectKeystrokes = 1

\* C5: during and after a session incorrectKeystrokes is the number of
\* positions marked in mistakeFlags: a position is counted at most once.
C5_OneCountPerPosition ==
    pc \in {"typing", "afterTest"} => incorrectKeystrokes = Cardinality(MistakeMask)
\* position 0 was typed and removed twice and is counted once
C5_Witness ==
    /\ pc = "typing" /\ ch \in {BS, DEL}
    /\ pos = 0 /\ totalKeystrokes = 2
    /\ incorrectKeystrokes = 1 /\ MistakeMask = {0}

\* C6: no step of a session makes totalKeystrokes or incorrectKeystrokes smaller.
C6_CountersMonotonic ==
    [][pc = "typing" =>
          /\ totalKeystrokes' >= totalKeystrokes
          /\ incorrectKeystrokes' >= incorrectKeystrokes]_vars
\* a wrong character was removed with backspace and both counters kept their value
C6_Witness ==
    /\ pc = "typing" /\ ch \in {BS, DEL}
    /\ pos = 0 /\ totalKeystrokes = 1 /\ incorrectKeystrokes = 1

\* C7: no step of a session clears a mark of mistakeFlags.
C7_MaskNeverShrinks ==
    [][pc = "typing" => \A i \in MistakeMask : mistakeFlags'[i] = 1]_vars
\* position 0 is marked although it now holds the right character
C7_Witness ==
    /\ pc = "typing" /\ pos >= 1
    /\ typedText[0] = text[1]
    /\ 0 \in MistakeMask

\* C8: during and after a session 0 <= pos <= len(text) and the string in
\* typedText has length pos.
C8_CursorAndBuffer ==
    pc \in {"typing", "afterTest"} =>
        /\ 0 <= pos /\ pos <= Len(text)
        /\ TypedLength = pos
\* a character was typed, removed and typed again: the cursor and the buffer
\* hold one character after two keystrokes
C8_Witness ==
    /\ pc = "typing" /\ isprint(ch)
    /\ totalKeystrokes = 2
    /\ pos = 1 /\ pos < Len(text)
    /\ TypedString = SubSeq(text, 1, 1)

\* C9: from the head of the endurance loop a round starts only when no round
\* was cancelled and the accuracy and WPM of the last finished round (100 and
\* 100 before the first round) are at least 85 and 30; otherwise the loop is
\* left and no round starts.
C9_RoundGate ==
    [][(pc = "loop" /\ mode = "endurance") =>
          IF /\ testCanceled = 0
             /\ FGeq(currentAccuracy, <<85, 1>>)
             /\ FGeq(currentWPM, <<30, 1>>)
          THEN pc' = "typing" /\ mode' = "endurance"
          ELSE pc' = "menu" /\ mode' = "none"]_vars
\* the third round finished with accuracy 80 and a WPM of at least 30: the
\* loop is at its head with roundsCompleted = 3 and can only be left
C9_Witness ==
    /\ pc = "loop" /\ mode = "endurance"
    /\ roundsCompleted = 3
    /\ currentAccuracy = <<80, 1>>
    /\ FGeq(currentWPM, <<30, 1>>)
    /\ testCanceled = 0

\* C10: when the session of a round returned Cancelled, the next step sets
\* testCanceled and keeps currentAccuracy, currentWPM, totalWordsCompleted and
\* roundsCompleted; once testCanceled is set no round is started.
C10_CancelledRound ==
    [][/\ (pc = "afterTest" /\ mode = "endurance" /\ testStatus = 0) =>
            /\ testCanceled' = 1
            /\ UNCHANGED <<currentAccuracy, currentWPM, totalWordsCompleted,
                           roundsCompleted>>
       /\ testCanceled = 1 => pc' # "typing"]_vars
\* the second round was cancelled: the figures of the first round are kept
C10_Witness ==
    /\ pc = "loop" /\ mode = "endurance"
    /\ testCanceled = 1
    /\ roundsCompleted = 1 /\ totalWordsCompleted = 10
    /\ currentAccuracy = <<95, 1>>

\* the step on which enduranceMode leaves its loop and returns to the menu
EnduranceReturns == pc = "loop" /\ mode = "endurance" /\ pc' = "menu"

\* C11: when the round loop of an endurance run has ended, by a threshold or by
\* a cancelled round, the return of enduranceMode sets enduranceHighScore to
\* the larger of its old value and the words of the run, adds the number of
\* finished rounds (not of words) to testsCompleted, and leaves bestWPM,
\* bestAccuracy, averageAccuracy, totalCharsTyped and totalCorrectChars alone.
C11_EnduranceProfileUpdate ==
    [][EnduranceReturns =>
          /\ user'.enduranceHighScore >= user.enduranceHighScore
          /\ user'.enduranceHighScore >= totalWordsCompleted
          /\ user'.enduranceHighScore \in {user.enduranceHighScore, totalWordsCompleted}
          /\ user'.testsCompleted = user.testsCompleted + roundsCompleted
          /\ user'.bestWPM = user.bestWPM
          /\ user'.bestAccuracy = user.bestAccuracy
          /\ user'.averageAccuracy = user.averageAccuracy
          /\ user'.totalCharsTyped = user.totalCharsTyped
          /\ user'.totalCorrectChars = user.totalCorrectChars]_vars
\* the returning user (2 tests, high score 20) back at the menu after a run
\* of three finished rounds: 5 tests, high score 30
C11_Witness ==
    /\ pc = "menu" /\ runs = 1
    /\ user = [ReturningUser EXCEPT !.enduranceHighScore = 30, !.testsCompleted = 5]

\* the larger of two floats as the code's  if (b > a) a = b  leaves it
FMax(a, b) == IF FGt(b, a) THEN b ELSE a

\* C12: when the session of a fixed-length run returned Finished, the step that
\* follows folds its result into the profile: bestWPM and bestAccuracy become
\* the larger of the old value and the result's, totalCharsTyped and
\* totalCorrectChars grow by the result's totalChars and correctChars,
\* averageAccuracy becomes 100 * totalCorrectChars / totalCharsTyped of the new
\* totals, testsCompleted grows by one and enduranceHighScore stays.
C12_FinishedRawFold ==
    [][(mode = "raw" /\ pc = "afterTest" /\ testStatus = 1) =>
          /\ user'.bestWPM = FMax(user.bestWPM, result.wpm)
          /\ user'.bestAccuracy = FMax(user.bestAccuracy, result.accuracy)
          /\ user'.totalCharsTyped = user.totalCharsTyped + result.totalChars
          /\ user'.totalCorrectChars = user.totalCorrectChars + result.correctChars
          /\ user'.averageAccuracy =
                 FDiv(100 * user'.totalCorrectChars, user'.totalCharsTyped)
          /\ user'.testsCompleted = user.testsCompleted + 1
          /\ user'.enduranceHighScore = user.enduranceHighScore]_vars
\* the returning user (10 characters, 9 correct, best accuracy 96) back at the
\* menu after a finished one-character session without a mistake
C12_Witness ==
    /\ pc = "menu" /\ runs = 1
    /\ user.testsCompleted = 3 /\ user.enduranceHighScore = 20
    /\ user.totalCharsTyped = 11 /\ user.totalCorrectChars = 10
    /\ user.bestAccuracy = <<100, 1>> /\ user.averageAccuracy = <<1000, 11>>

\* C13 (as claimed): while either mode generates a text from a word list that
\* holds at least as many words as the text is to have (the same number
\* included), no index of the list has been drawn twice: the indexes marked
\* used are as many as the words drawn so far.
C13_NoIndexTwice ==
    (pc = "sampling" /\ wordCount >= LoopCount) => Cardinality(usedIndexes) = sampleI

\* the words of a string: its maximal runs of characters other than the space
NumWords(str) ==
    Cardinality({i \in 1..Len(str) : str[i] # SPACE /\ (i = 1 \/ str[i - 1] = SPACE)})
\* no leading space, no trailing space, no two spaces in a row
SingleSpaced(str) ==
    /\ str # <<>> => (str[1] # SPACE /\ str[Len(str)] # SPACE)
    /\ \A i \in 1..(Len(str) - 1) : ~(str[i] = SPACE /\ str[i + 1] = SPACE)

\* C14 (as claimed): the text either mode hands to typingTest is exactly
\* k = min(requested count, pool size) words joined by single spaces, without a
\* leading or trailing space and without two spaces in a row, whatever the
\* size of the pool.
C14_TextIsWordsJoinedBySpaces ==
    [][(pc = "sampling" /\ pc' = "typing") =>
          /\ SingleSpaced(text')
          /\ NumWords(text') = Min(LoopCount, wordCount)]_vars

\* C15: when the word-list file cannot be opened, so that loadWordsFromFile
\* reports failure, the menu choice of either mode returns to the menu without
\* entering typingTest, and leaves the profile and its saved copy as they were.
C15_LoadFailureReturns ==
    [][(EnduranceEnter({NoFile}) \/ RawEnter({NoFile})) =>
          /\ pc' = "menu" /\ mode' = "none" /\ testStatus' = -1
          /\ user' = user
          /\ usersFile' = usersFile]_vars
\* back at the menu after a mode was chosen, with no word loaded and the
\* profile of the start: a run on a loaded list, even an empty one, ends with
\* testsCompleted increased, so this is the state after a failed load
C15_Witness ==
    /\ pc = "menu" /\ runs = 1
    /\ wordCount = 0
    /\ user \in InitUsers /\ usersFile = user

\* C16: for every target and typed string, the empty target, the empty typed
\* string and a typed string longer than twice the target included, the
\* accuracy calculateAccuracy returns lies in [0, 100].
C16_AccuracyInRange ==
    pc = "scored" => (FGeq(score.accuracy, FInt(0)) /\ FGeq(FInt(100), score.accuracy))
\* a typed string more than twice as long as a non-empty target: scored 0
C16_Witness ==
    /\ pc = "scored"
    /\ Len(scTarget) > 0 /\ Len(scTyped) > 2 * Len(scTarget)
    /\ score.accuracy = <<0, 1>>

\* the classification of the reference definition
RefMistyped ==
    Cardinality({i \in 1..Min(Len(scTarget), Len(scTyped)) : scTyped[i] # scTarget[i]})
RefMissed == IF Len(scTarget) > Len(scTyped) THEN Len(scTarget) - Len(scTyped) ELSE 0
RefExtra == IF Len(scTyped) > Len(scTarget) THEN Len(scTyped) - Len(scTarget) ELSE 0
RefErrors == RefMistyped + RefMissed + RefExtra

\* C17: calculateAccuracy agrees with the reference definition: mistyped is the
\* number of positions below both lengths where the strings differ, missed and
\* extra are the length differences, accuracy is 100 * (1 - errors / len(target))
\* floored at 0, and 0 for an empty target. So equal non-empty strings score
\* 100 with three zero counts, and an empty typed string scores 0.
C17_AgreesWithReference ==
    pc = "scored" =>
        /\ score.mistyped = RefMistyped
        /\ score.missed = RefMissed
        /\ score.extra = RefExtra
        /\ score.accuracy =
               IF Len(scTarget) = 0 \/ RefErrors >= Len(scTarget) THEN <<0, 1>>
               ELSE FDiv(100 * (Len(scTarget) - RefErrors), Len(scTarget))
        /\ (scTyped = scTarget /\ scTarget # <<>>) =>
               score = [accuracy |-> <<100, 1>>, mistyped |-> 0, missed |-> 0, extra |-> 0]
        /\ scTyped = <<>> => score.accuracy = <<0, 1>>
\* target "aba", typed "abab": one extra character, accuracy 100 * (1 - 1/3)
C17_Witness ==
    /\ pc = "scored"
    /\ scTarget = <<97, 98, 97>> /\ scTyped = <<97, 98, 97, 98>>
    /\ score = [accuracy |-> <<200, 3>>, mistyped |-> 0, missed |-> 0, extra |-> 1]

\* C18: the difficulty enduranceMode gets from getDifficulty is that of the
\* accuracy 100 * totalCorrectChars / totalCharsTyped, or of bestAccuracy when
\* totalCharsTyped is 0: Hard (3) iff it is >= 95, Medium (2) iff it is >= 85
\* and < 95, Easy (1) iff it is < 85; 96 of 100 is Hard, 90 of 100 Medium,
\* 70 of 100 Easy. The profile is not modified.
C18_DifficultyOfAccuracy ==
    [][(pc = "menu" /\ pc' = "loop") =>
          LET tt == user.totalCharsTyped
              tc == user.totalCorrectChars
              atLeast(k) == IF tt > 0 THEN 100 * tc >= k * tt
                            ELSE FGeq(user.bestAccuracy, FInt(k))
          IN  /\ difficulty' \in {1, 2, 3}
              /\ difficulty' = 3 <=> atLeast(95)
              /\ difficulty' = 2 <=> (atLeast(85) /\ ~atLeast(95))
              /\ difficulty' = 1 <=> ~atLeast(85)
              /\ (tt = 100 /\ tc = 96) => difficulty' = 3
              /\ (tt = 100 /\ tc = 90) => difficulty' = 2
              /\ (tt = 100 /\ tc = 70) => difficulty' = 1
              /\ user' = user]_vars
\* a run entered with 95 of 100 characters correct: Hard, on the threshold
C18_Witness ==
    /\ pc = "loop"
    /\ user.totalCharsTyped = 100 /\ user.totalCorrectChars = 95
    /\ difficulty = 3

\* C19 (as claimed): a backspace read while the cursor is past the start moves
\* the cursor back by one, truncates the typed string there, and changes
\* neither of the keystroke counters nor the mistake flags.
C19_BackspaceOnlyMovesCursor ==
    [][(pc = "typing" /\ testFinished = 0 /\ pos < Len(text) /\ pos > 0
          /\ (ch' = BS \/ ch' = DEL)) =>
          /\ pos' = pos - 1
          /\ typedText' = [typedText EXCEPT ![pos - 1] = NUL]
          /\ UNCHANGED <<totalKeystrokes, incorrectKeystrokes, mistakeFlags>>]_vars

\* C20 (as claimed): when typingTest has returned Finished, the mistyped,
\* missed and extra fields of its TypingResult are the counts calculateAccuracy
\* gives for the final typed string against the text.
C20_ResultCountsAreTheScorers ==
    (pc = "afterTest" /\ testStatus = 1) =>
        LET c == calculateAccuracy(text, TypedString)
        IN  /\ result.mistyped = c.mistyped
            /\ result.missed = c.missed
            /\ result.extra = c.extra

\* C21 (as claimed): an endurance run on a word list that was loaded and holds
\* no word, where every round's text is empty and nothing is typed, credits
\* nothing: at its return enduranceHighScore and testsCompleted are what they
\* were when the mode was entered.
C21_EmptyPoolCreditsNothing ==
    [][(EnduranceReturns /\ wordCount = 0) =>
          /\ user'.enduranceHighScore = user.enduranceHighScore
          /\ user'.testsCompleted = user.testsCompleted]_vars

\* the float is the result of a division by zero: an infinity or NaN
DividedByZero(a) == a[2] = 0

\* C22 (as claimed): no count of zero is divided by: the accuracy of a finished
\* session is a number even after no keystroke, and the averageAccuracy the
\* profile gets from a finished fixed-length run is a number even when the new
\* totalCharsTyped is 0.
C22_NoDivisionByZeroCount ==
    [][(mode = "raw" /\ pc = "afterTest" /\ testStatus = 1) =>
          /\ ~DividedByZero(result.accuracy)
          /\ ~DividedByZero(user'.averageAccuracy)]_vars

\* the states of a session: Running while the key loop goes on, Finished once
\* its condition is false or typingTest has returned 1, Cancelled once it has
\* returned 0
Running == pc = "typing" /\ testFinished = 0 /\ pos < Len(text)
SessionFinished ==
    \/ pc = "typing" /\ ~(testFinished = 0 /\ pos < Len(text))
    \/ pc = "afterTest" /\ testStatus = 1
SessionCancelled == pc = "afterTest" /\ testStatus = 0

\* C23: a Running session stays Running, or becomes Finished, or becomes
\* Cancelled; it becomes Finished on exactly the printable-character event
\* that brings the cursor to the length of the text, and Cancelled on exactly
\* the cancel key, so that it stays Running while the cursor is before the end
\* and no cancel key arrives; once it is Finished no key is read any more: the
\* only step is the return of typingTest with status 1.
C23_SessionStates ==
    [][/\ Running =>
            /\ Running' \/ SessionFinished' \/ SessionCancelled'
            /\ SessionFinished' <=>
                  (isprint(ch') /\ totalKeystrokes' = totalKeystrokes + 1
                   /\ pos' = pos + 1 /\ pos' = Len(text))
            /\ SessionCancelled' <=> ch' = ESC
       /\ (pc = "typing" /\ ~Running) =>
            /\ pc' = "afterTest" /\ testStatus' = 1
            /\ UNCHANGED sessionVars]_vars
\* the two-character text typed to its end: Finished, the key loop not yet left
C23_Witness ==
    /\ pc = "typing" /\ testFinished = 1
    /\ Len(text) = 2 /\ pos = 2 /\ isprint(ch)

\* C24: a key that is not printable, not the cancel key and not a backspace,
\* and a backspace read with the cursor at 0, leaves the cursor, the typed
\* string, both keystroke counters and the mistake flags as they were, and the
\* session Running.
C24_IgnoredEvent ==
    [][(Running /\ \/ ~isprint(ch') /\ ch' # ESC /\ ch' # BS /\ ch' # DEL
                   \/ (ch' = BS \/ ch' = DEL) /\ pos = 0) =>
          /\ UNCHANGED <<pos, typedText, totalKeystrokes, incorrectKeystrokes,
                         mistakeFlags>>
          /\ Running']_vars
\* a backspace as the first key of a session: nothing typed, still Running
C24_Witness ==
    /\ Running /\ ch = BS
    /\ pos = 0 /\ totalKeystrokes = 0

\* C25: in every state 0 <= incorrectKeystrokes <= totalKeystrokes; so the
\* result of a finished session has 0 <= correctChars <= totalChars and an
\* accuracy within [0, 100].
C25_ErrorsWithinKeystrokes ==
    /\ 0 <= incorrectKeystrokes /\ incorrectKeystrokes <= totalKeystrokes
    /\ (pc = "afterTest" /\ testStatus = 1) =>
          /\ 0 <= result.correctChars /\ result.correctChars <= result.totalChars
          /\ FGeq(result.accuracy, FInt(0)) /\ FGeq(FInt(100), result.accuracy)
\* a finished session with backspaces in it: 20 keystrokes on a text of two
\* characters, some of them counted as errors
C25_Witness ==
    /\ pc = "afterTest" /\ testStatus = 1
    /\ result.totalChars = 20
    /\ result.correctChars > 0 /\ result.correctChars < result.totalChars

\* C26 (as claimed): after any sequence of fixed-length and endurance runs,
\* finished or cancelled, the profile has 0 <= totalCorrectChars <=
\* totalCharsTyped, and its averageAccuracy and the accuracy getDifficulty
\* derives from it lie within [0, 100].
C26_ProfileConsistent ==
    LET selectorAccuracy == IF user.totalCharsTyped > 0
                            THEN FDiv(100 * user.totalCorrectChars, user.totalCharsTyped)
                            ELSE user.bestAccuracy
    IN  /\ 0 <= user.totalCorrectChars /\ user.totalCorrectChars <= user.totalCharsTyped
        /\ FGeq(user.averageAccuracy, FInt(0)) /\ FGeq(FInt(100), user.averageAccuracy)
        /\ FGeq(selectorAccuracy, FInt(0)) /\ FGeq(FInt(100), selectorAccuracy)

\* C28 (as claimed): whatever the number of words of the file, more than
\* MAX_WORDS included, loadWordsFromFile stores no word at an index of wordList
\* outside 0..MAX_WORDS-1, and 0 <= wordCount <= MAX_WORDS.
C28_LoaderInBounds ==
    /\ lastStore <= MAX_WORDS - 1
    /\ 0 <= wordCount /\ wordCount <= MAX_WORDS

\* C27: with words of at most 19 characters and at most 50 words a text, every
\* generated text is at most 999 characters long, so that it fits the buffers
\* of 1000 bytes with its terminator; and in a session the cursor never
\* exceeds 999 and the typed buffer is never written past index 999: while the
\* key loop runs, the character goes to index pos and its terminator to pos + 1.
C27_BuffersSuffice ==
    /\ Len(text) <= TypedLimit
    /\ pos <= TypedLimit
    /\ Running => pos + 1 <= TypedLimit
    /\ \A i \in DOMAIN typedText : i <= TypedLimit
    /\ \A i \in DOMAIN mistakeFlags : i <= TypedLimit
\* the text of 50 words of 19 letters, 999 characters, typed to its end
C27_Witness ==
    /\ pc = "typing" /\ mode = "raw"
    /\ Len(text) = TypedLimit /\ pos = TypedLimit /\ testFinished = 1

====
